---- MODULE Spec2Model ----
(***************************************************************************)
(* A model of the OSM public-transport exporter: the relation filter       *)
(* (PTHandler), the node and way passes and the route assembly of          *)
(* process_osm_file, the KML and Shapefile exporters, and main.            *)
(*                                                                         *)
(* Python values are modelled with their type: a str is a sequence of      *)
(* one-character strings, None and int are tagged records, a dict is a     *)
(* function on its keys (with the insertion order where code iterates it). *)
(***************************************************************************)
EXTENDS Integers, Sequences, FiniteSets, TLC

VARIABLES
    pc,                    \* the control point of the function being run
    lastRec,               \* the record most recently handed to a handler
    n_seen,                \* how many relation records the handler has been given
    routes,                \* PTHandler.routes
    seen_nodes,            \* the node records read so far: id -> location
    seen_ways,             \* the way records read so far: id -> node references
    node_store,            \* process_osm_file: node_store
    way_geoms,             \* process_osm_file: way_geoms
    routes_with_geometry,  \* process_osm_file: routes_with_geometry
    idx,                   \* position of a loop over the routes
    log,                   \* the warnings and errors logged so far
    lines,                 \* the line geometries handed to a merge
    merged,                \* what linemerge(unary_union(lines)) did
    kml_files,             \* export_routes_to_kml: kml_files
    saved,                 \* the KML documents on disk: file name -> document
    records,               \* export_routes_to_shapefile: records
    skipped_routes,        \* export_routes_to_shapefile: skipped_routes
    tried,                 \* what the merge and the disk did for each route handled
    ret,                   \* how the function being run ended
    file,                  \* main: the input file
    args                   \* main: the export formats asked for

passVars == <<seen_nodes, seen_ways, node_store, way_geoms>>
asmVars == <<routes_with_geometry, idx>>
expVars == <<lines, merged, kml_files, saved, records, skipped_routes, tried, ret, file, args>>
vars == <<pc, lastRec, n_seen, routes, passVars, asmVars, log, expVars>>

(***************************************************************************)
(* Python values                                                           *)
(***************************************************************************)
PyNone == [t |-> "none"]
PyStr(s) == [t |-> "str", v |-> s]
PyInt(i) == [t |-> "int", v |-> i]
PyList(l) == [t |-> "list", v |-> l]

DigitChar == <<"0", "1", "2", "3", "4", "5", "6", "7", "8", "9">>

RECURSIVE Str(_)
Str(n) ==
    IF n < 10 THEN <<DigitChar[n + 1]>>
    ELSE Str(n \div 10) \o <<DigitChar[(n % 10) + 1]>>

NoKeys == [k \in {} |-> k]

\* d.get(k, default) on a dict whose values are tagged Python values
Get(d, k, default) == IF k \in DOMAIN d THEN d[k] ELSE default

\* r.tags.get(k, default): a tag value is a str
TagsGet(tags, k, default) == IF k \in DOMAIN tags THEN PyStr(tags[k]) ELSE default

\* x in lst, for a list of str
InList(x, lst) == \E i \in 1..Len(lst) : x = PyStr(lst[i])

\* A dict that the code iterates: its keys in insertion order and its values.
EmptyDict == [keys |-> <<>>, val |-> NoKeys]

DictSet(d, k, v) ==
    [keys |-> IF k \in DOMAIN d.val THEN d.keys ELSE Append(d.keys, k),
     val |-> (k :> v) @@ d.val]

(***************************************************************************)
(* String literals of the source                                           *)
(***************************************************************************)
s_route == <<"r", "o", "u", "t", "e">>
s_route_ == <<"r", "o", "u", "t", "e", "_">>
s_bus == <<"b", "u", "s">>
s_trolleybus == <<"t", "r", "o", "l", "l", "e", "y", "b", "u", "s">>
s_tram == <<"t", "r", "a", "m">>
s_train == <<"t", "r", "a", "i", "n">>
s_subway == <<"s", "u", "b", "w", "a", "y">>
s_light_rail == <<"l", "i", "g", "h", "t", "_", "r", "a", "i", "l">>
s_empty == <<>>

TRANSPORT_TYPES == <<s_bus, s_trolleybus, s_tram, s_train, s_subway, s_light_rail>>

(***************************************************************************)
(* PTHandler.relation                                                      *)
(***************************************************************************)
WayMembers_AllKinds(members) ==
    [i \in 1..Len(members) |-> members[i].ref]

WayMembers(members) ==
    LET ws == SelectSeq(members, LAMBDA m : m.type = "w")
    IN  [i \in 1..Len(ws) |-> ws[i].ref]

relation_NoTypeTest(rts, r) ==
    LET route_type == TagsGet(r.tags, "route", PyNone)
    IN  IF InList(route_type, TRANSPORT_TYPES)
        THEN DictSet(rts, r.id,
                 [name |-> TagsGet(r.tags, "name", PyStr(s_route_ \o Str(r.id))),
                  ref |-> TagsGet(r.tags, "ref", PyStr(s_empty)),
                  type |-> route_type,
                  ways |-> PyList(WayMembers(r.members))])
        ELSE rts

relation(rts, r) ==
    LET route_type == TagsGet(r.tags, "route", PyNone)
    IN  IF TagsGet(r.tags, "type", PyNone) = PyStr(s_route)
           /\ InList(route_type, TRANSPORT_TYPES)
        THEN LET route_id == r.id
                 route_name == TagsGet(r.tags, "name", PyStr(s_route_ \o Str(route_id)))
                 route_ref == TagsGet(r.tags, "ref", PyStr(s_empty))
                 members == WayMembers(r.members)
             IN  DictSet(rts, route_id,
                     [name |-> route_name,
                      ref |-> route_ref,
                      type |-> route_type,
                      ways |-> PyList(members)])
        ELSE rts

(***************************************************************************)
(* Bounds and the records fed to the relation handler                      *)
(***************************************************************************)
MaxRelations == 2
MaxMembers == 2

RelationIds == {7, 12}
WayIds == {1, 2}

s_ferry == <<"f", "e", "r", "r", "y">>
s_site == <<"s", "i", "t", "e">>
s_L5 == <<"L", " ", "5">>

OptTag(k, vals) == {NoKeys} \cup {(k :> v) : v \in vals}

RouteValues == {TRANSPORT_TYPES[i] : i \in 1..Len(TRANSPORT_TYPES)} \cup {s_ferry}

BusTags == ("type" :> s_route) @@ ("route" :> s_bus)

\* tags that exercise the acceptance predicate
AcceptanceTags ==
    {ty @@ ro @@ ("name" :> s_L5) :
        ty \in OptTag("type", {s_route, s_site}), ro \in OptTag("route", RouteValues)}

\* tags that exercise the descriptive attributes of an accepted relation
AttributeTags ==
    {BusTags @@ na @@ rf @@ fr @@ to :
        na \in OptTag("name", {s_empty, s_L5}),
        rf \in OptTag("ref", {<<"5">>}),
        fr \in OptTag("from", {<<"A">>}),
        to \in OptTag("to", {<<"B">>})}

Members ==
    {[type |-> "w", ref |-> w] : w \in WayIds}
        \cup {[type |-> "n", ref |-> 1], [type |-> "r", ref |-> 7]}

MemberLists == UNION {[1..n -> Members] : n \in 0..MaxMembers}

OneWay == <<[type |-> "w", ref |-> 1]>>

RelationRecords ==
    {[id |-> i, tags |-> tg, members |-> OneWay] :
        i \in RelationIds, tg \in AcceptanceTags \cup AttributeTags}
    \cup
    {[id |-> i, tags |-> BusTags, members |-> ms] :
        i \in RelationIds, ms \in MemberLists}

NoRecord == [id |-> 0, tags |-> NoKeys, members |-> <<>>]

\* the parts of the state a specification does not use
PassIdle ==
    /\ seen_nodes = NoKeys
    /\ seen_ways = NoKeys
    /\ node_store = NoKeys
    /\ way_geoms = NoKeys

AsmIdle ==
    /\ routes_with_geometry = EmptyDict
    /\ idx = 0

NoMerge == [raised |-> FALSE, geom_type |-> "none", geoms |-> {}]
Running == [kind |-> "running"]
NoFile == [exists |-> FALSE]
NoArgs == [format |-> "kml", kml |-> FALSE, shp |-> FALSE]

MergeIdle ==
    /\ lines = <<>>
    /\ merged = NoMerge

OutputIdle ==
    /\ kml_files = <<>>
    /\ saved = NoKeys
    /\ records = <<>>
    /\ skipped_routes = <<>>
    /\ tried = NoKeys
    /\ ret = Running

MainIdle ==
    /\ file = NoFile
    /\ args = NoArgs

ExpIdle == MergeIdle /\ OutputIdle /\ MainIdle

(***************************************************************************)
(* SpecFilter: PTHandler().apply_file, one relation record at a time       *)
(***************************************************************************)
InitFilter ==
    /\ pc = "relations"
    /\ lastRec = NoRecord
    /\ n_seen = 0
    /\ routes = EmptyDict
    /\ PassIdle
    /\ AsmIdle
    /\ log = {}
    /\ ExpIdle

Relation ==
    /\ pc = "relations"
    /\ n_seen < MaxRelations
    /\ \E r \in RelationRecords :
        /\ routes' = relation(routes, r)
        /\ lastRec' = r
    /\ n_seen' = n_seen + 1
    /\ UNCHANGED <<pc, passVars, asmVars, log>>
    /\ UNCHANGED expVars

RelationsDone ==
    /\ pc = "relations"
    /\ pc' = "relations_done"
    /\ UNCHANGED <<lastRec, n_seen, routes, passVars, asmVars, log>>
    /\ UNCHANGED expVars

NextFilter == Relation \/ RelationsDone

SpecFilter == InitFilter /\ [][NextFilter]_vars

(***************************************************************************)
(* Claims about the relation filter                                        *)
(***************************************************************************)
\* the six route values of the transport-type enumeration
SixTransportTypes == {s_bus, s_trolleybus, s_tram, s_train, s_subway, s_light_rail}

\* the acceptance predicate as the specification words it
IsTransportRoute(r) ==
    /\ "type" \in DOMAIN r.tags
    /\ r.tags["type"] = s_route
    /\ "route" \in DOMAIN r.tags
    /\ r.tags["route"] \in SixTransportTypes

\* a relation record has just been handed to PTHandler.relation
RelationHandled == pc = "relations" /\ n_seen' = n_seen + 1

\* C1: PTHandler.relation adds (or replaces) the entry of the relation's id
\* if and only if type = "route" and route is one of the six transport
\* types; any other relation leaves the route mapping exactly as it was.
C1_AcceptIffTransportRoute ==
    [][RelationHandled =>
        IF IsTransportRoute(lastRec')
        THEN /\ lastRec'.id \in DOMAIN routes'.val
             /\ routes'.val[lastRec'.id].type = PyStr(lastRec'.tags["route"])
             /\ \A k \in DOMAIN routes.val \ {lastRec'.id} :
                    k \in DOMAIN routes'.val /\ routes'.val[k] = routes.val[k]
             /\ DOMAIN routes'.val = DOMAIN routes.val \cup {lastRec'.id}
        ELSE routes' = routes]_vars

\* C1 witness: a route=ferry relation was handed to the handler after an
\* accepted one, and only the accepted one is in the mapping.
C1_Witness ==
    /\ n_seen = 2
    /\ "route" \in DOMAIN lastRec.tags
    /\ lastRec.tags["route"] = s_ferry
    /\ "type" \in DOMAIN lastRec.tags
    /\ lastRec.tags["type"] = s_route
    /\ lastRec.id \notin DOMAIN routes.val
    /\ Len(routes.keys) = 1

\* C8: the route name of an accepted relation is its name tag when present
\* and non-empty, and "route_" + id when the tag is absent or empty.
C8_NameFallback ==
    (n_seen > 0 /\ IsTransportRoute(lastRec)) =>
        routes.val[lastRec.id].name =
            IF "name" \in DOMAIN lastRec.tags /\ lastRec.tags["name"] # s_empty
            THEN PyStr(lastRec.tags["name"])
            ELSE PyStr(s_route_ \o Str(lastRec.id))

(***************************************************************************)
(* process_osm_file, steps 2 and 3: NodeCollector.node, WayCollector.way   *)
(***************************************************************************)
\* A node record is [id, location]; an invalid location makes n.location.lon
\* raise osmium.InvalidLocationError, which the handler catches.
InvalidLocation == [valid |-> FALSE]
Location(lon, lat) == [valid |-> TRUE, lon |-> lon, lat |-> lat]

Warn(what, id, count) == [level |-> "warning", what |-> what, id |-> id, count |-> count]

\* The handlers change the store (or the mapping) and the log: st is
\* [store, log] for node and [geoms, log] for way.
node_DropsSilently(st, n) ==
    IF n.location.valid
    THEN [st EXCEPT !.store = (n.id :> <<n.location.lon, n.location.lat>>) @@ st.store]
    ELSE st

node(st, n) ==
    IF n.location.valid
    THEN [st EXCEPT !.store = (n.id :> <<n.location.lon, n.location.lat>>) @@ st.store]
    ELSE [st EXCEPT !.log = st.log \cup {Warn("invalid_location", n.id, 0)}]

\* the coordinates of the references found in the store, in reference order
RECURSIVE ResolvedCoords(_, _)
ResolvedCoords(refs, store) ==
    IF refs = <<>> THEN <<>>
    ELSE IF Head(refs) \in DOMAIN store
         THEN <<store[Head(refs)]>> \o ResolvedCoords(Tail(refs), store)
         ELSE ResolvedCoords(Tail(refs), store)

RECURSIVE MissingNodes(_, _)
MissingNodes(refs, store) ==
    IF refs = <<>> THEN 0
    ELSE (IF Head(refs) \in DOMAIN store THEN 0 ELSE 1) + MissingNodes(Tail(refs), store)

way_KeepsOneCoord(st, store, w) ==
    LET coords == ResolvedCoords(w.nodes, store)
    IN  IF Len(coords) >= 1
        THEN [st EXCEPT !.geoms = (w.id :> coords) @@ st.geoms]
        ELSE st

way(st, store, w) ==
    LET coords == ResolvedCoords(w.nodes, store)
        missing_nodes == MissingNodes(w.nodes, store)
    IN  IF coords # <<>> /\ Len(coords) >= 2
        THEN [st EXCEPT !.geoms = (w.id :> coords) @@ st.geoms]
        ELSE IF missing_nodes > 0
             THEN [st EXCEPT !.log =
                      st.log \cup {Warn("way_missing_nodes", w.id, missing_nodes)}]
             ELSE st

(***************************************************************************)
(* The node and way records of the input                                   *)
(***************************************************************************)
MaxRefs == 3

NodeIds == {1, 2, 3}

\* Coordinates in general position: no three on a line and the fourth inside
\* the triangle of the others, so two segments between them meet only at a
\* coordinate they share.
Coordinates == <<Location(0, 0), Location(4, 0), Location(2, 3), Location(2, 1)>>

NodeRecords ==
    UNION {{[id |-> i, location |-> l] : l \in {Coordinates[i], InvalidLocation}} :
              i \in NodeIds}

RefLists == UNION {[1..n -> NodeIds] : n \in 0..MaxRefs}

WayRecords == {[id |-> i, nodes |-> refs] : i \in WayIds, refs \in RefLists}

Greatest(S) == IF S = {} THEN 0 ELSE CHOOSE x \in S : \A y \in S : y <= x

SampleRelations == <<[id |-> 7, tags |-> BusTags, members |-> OneWay]>>

RECURSIVE PTHandler_apply_file(_, _)
PTHandler_apply_file(rts, rels) ==
    IF rels = <<>> THEN rts
    ELSE PTHandler_apply_file(relation(rts, Head(rels)), Tail(rels))

(***************************************************************************)
(* Spec: the node pass and the way pass of process_osm_file.  The records  *)
(* of a kind arrive as an OSM extract holds them: by increasing id, each   *)
(* id at most once.                                                        *)
(***************************************************************************)
Init ==
    /\ pc = "nodes"
    /\ lastRec = NoRecord
    /\ n_seen = 0
    /\ routes = PTHandler_apply_file(EmptyDict, SampleRelations)
    /\ PassIdle
    /\ AsmIdle
    /\ log = {}
    /\ ExpIdle

Node ==
    /\ pc = "nodes"
    /\ \E n \in NodeRecords :
        /\ n.id > Greatest(DOMAIN seen_nodes)
        /\ LET st == node([store |-> node_store, log |-> log], n)
           IN  /\ node_store' = st.store
               /\ log' = st.log
        /\ seen_nodes' = (n.id :> n.location) @@ seen_nodes
    /\ UNCHANGED <<pc, lastRec, n_seen, routes, seen_ways, way_geoms, asmVars>>
    /\ UNCHANGED expVars

NodesDone ==
    /\ pc = "nodes"
    /\ pc' = "ways"
    /\ UNCHANGED <<lastRec, n_seen, routes, passVars, asmVars, log>>
    /\ UNCHANGED expVars

Way ==
    /\ pc = "ways"
    /\ \E w \in WayRecords :
        /\ w.id > Greatest(DOMAIN seen_ways)
        /\ LET st == way([geoms |-> way_geoms, log |-> log], node_store, w)
           IN  /\ way_geoms' = st.geoms
               /\ log' = st.log
        /\ seen_ways' = (w.id :> w.nodes) @@ seen_ways
    /\ UNCHANGED <<pc, lastRec, n_seen, routes, seen_nodes, node_store, asmVars>>
    /\ UNCHANGED expVars

WaysDone ==
    /\ pc = "ways"
    /\ pc' = "assign"
    /\ UNCHANGED <<lastRec, n_seen, routes, passVars, asmVars, log>>
    /\ UNCHANGED expVars

Next == Node \/ NodesDone \/ Way \/ WaysDone

Spec == Init /\ [][Next]_vars

(***************************************************************************)
(* Claims about the way pass                                               *)
(***************************************************************************)
\* the node references of a way that resolve in the store, as positions
ResolvedPositions(refs) == {i \in 1..Len(refs) : refs[i] \in DOMAIN node_store}

\* the k-th smallest position of a set of positions
RECURSIVE KthPosition(_, _)
KthPosition(S, k) ==
    LET m == CHOOSE x \in S : \A y \in S : x <= y
    IN  IF k = 1 THEN m ELSE KthPosition(S \ {m}, k - 1)

\* C10: once the way pass is over, a way id is a key of way_geoms if and
\* only if at least 2 of its node references (with repetition) resolved in
\* the node store, and its geometry is the resolved references' coordinates
\* in reference order, as many as resolved.
C10_WayGeometryIffTwoResolved ==
    pc = "assign" =>
        \A id \in DOMAIN seen_ways :
            LET refs == seen_ways[id]
                pos == ResolvedPositions(refs)
            IN  /\ id \in DOMAIN way_geoms <=> Cardinality(pos) >= 2
                /\ id \in DOMAIN way_geoms =>
                    /\ Len(way_geoms[id]) = Cardinality(pos)
                    /\ \A k \in 1..Cardinality(pos) :
                           way_geoms[id][k] = node_store[refs[KthPosition(pos, k)]]

\* C10 witness: after the way pass one way had three references of which one
\* did not resolve and one node was referenced twice, and it has a geometry
\* of two coordinates; another way resolved a single reference and has none.
C10_Witness ==
    /\ pc = "assign"
    /\ \E id \in DOMAIN seen_ways :
        /\ Len(seen_ways[id]) = 3
        /\ Cardinality(ResolvedPositions(seen_ways[id])) = 2
        /\ seen_ways[id][1] = seen_ways[id][3]
        /\ id \in DOMAIN way_geoms
    /\ \E id \in DOMAIN seen_ways :
        /\ Cardinality(ResolvedPositions(seen_ways[id])) = 1
        /\ id \notin DOMAIN way_geoms

(***************************************************************************)
(* process_osm_file, step 4: the geometries of each route                  *)
(***************************************************************************)
\* the geometries of the ways of the list that have one, in list order
RECURSIVE Geometries(_, _)
Geometries(ways, geoms) ==
    IF ways = <<>> THEN <<>>
    ELSE IF Head(ways) \in DOMAIN geoms
         THEN <<geoms[Head(ways)]>> \o Geometries(Tail(ways), geoms)
         ELSE Geometries(Tail(ways), geoms)

RECURSIVE MissingWays(_, _)
MissingWays(ways, geoms) ==
    IF ways = <<>> THEN 0
    ELSE (IF Head(ways) \in DOMAIN geoms THEN 0 ELSE 1) + MissingWays(Tail(ways), geoms)

\* One iteration of the loop over handler.routes: st is [rwg, log].
assign_NeedsEveryWay(st, route_id, route_data, geoms) ==
    LET geometries == Geometries(route_data.ways.v, geoms)
        missing_ways == MissingWays(route_data.ways.v, geoms)
    IN  IF geometries # <<>> /\ missing_ways = 0
        THEN [st EXCEPT !.rwg = DictSet(st.rwg, route_id,
                     ("geometries" :> PyList(geometries)) @@ route_data)]
        ELSE [st EXCEPT !.log = st.log \cup {Warn("route_skipped", route_id, 0)}]

assign(st, route_id, route_data, geoms) ==
    LET geometries == Geometries(route_data.ways.v, geoms)
        missing_ways == MissingWays(route_data.ways.v, geoms)
    IN  IF geometries # <<>>
        THEN [rwg |-> DictSet(st.rwg, route_id,
                          ("geometries" :> PyList(geometries)) @@ route_data),
              log |-> IF missing_ways > 0
                      THEN st.log \cup {Warn("route_missing_ways", route_id, missing_ways)}
                      ELSE st.log]
        ELSE [st EXCEPT !.log = st.log \cup {Warn("route_skipped", route_id, 0)}]

(***************************************************************************)
(* SpecAssign: the loop of step 4, from the states the passes leave        *)
(***************************************************************************)
WayLists == UNION {[1..n -> WayIds] : n \in 0..MaxMembers}

AsWayMembers(ws) == [i \in 1..Len(ws) |-> [type |-> "w", ref |-> ws[i]]]

BusRelation(i, ws) ==
    [id |-> i, tags |-> BusTags @@ ("name" :> s_L5), members |-> AsWayMembers(ws)]

\* the relation parts of inputs with up to two routes
RouteFiles ==
    {<<>>}
    \cup {<<BusRelation(i, ws)>> : i \in RelationIds, ws \in WayLists}
    \cup {<<BusRelation(ij[1], ws), BusRelation(ij[2], vs)>> :
            ij \in {p \in RelationIds \X RelationIds : p[1] # p[2]},
            ws \in WayLists, vs \in WayLists}

\* the geometry a way of the input has when its nodes resolve
SampleGeometry(w) ==
    IF w = 1 THEN <<<<0, 0>>, <<4, 0>>>> ELSE <<<<4, 0>>, <<2, 3>>, <<2, 1>>>>

WayGeomStates == {[w \in S |-> SampleGeometry(w)] : S \in SUBSET WayIds}

InitAssign ==
    /\ pc = "assign"
    /\ lastRec = NoRecord
    /\ n_seen = 0
    /\ \E rels \in RouteFiles : routes = PTHandler_apply_file(EmptyDict, rels)
    /\ seen_nodes = NoKeys
    /\ seen_ways = NoKeys
    /\ node_store = NoKeys
    /\ way_geoms \in WayGeomStates
    /\ AsmIdle
    /\ log = {}
    /\ ExpIdle

Assign ==
    /\ pc = "assign"
    /\ idx < Len(routes.keys)
    /\ LET route_id == routes.keys[idx + 1]
           st == assign([rwg |-> routes_with_geometry, log |-> log],
                        route_id, routes.val[route_id], way_geoms)
       IN  /\ routes_with_geometry' = st.rwg
           /\ log' = st.log
    /\ idx' = idx + 1
    /\ UNCHANGED <<pc, lastRec, n_seen, routes, passVars>>
    /\ UNCHANGED expVars

AssignReturn ==
    /\ pc = "assign"
    /\ idx = Len(routes.keys)
    /\ pc' = "processed"
    /\ UNCHANGED <<lastRec, n_seen, routes, passVars, asmVars, log>>
    /\ UNCHANGED expVars

NextAssign == Assign \/ AssignReturn

SpecAssign == InitAssign /\ [][NextAssign]_vars

(***************************************************************************)
(* Claims about the route assembly                                         *)
(***************************************************************************)
ResolvedWayPositions(ways) == {i \in 1..Len(ways) : ways[i] \in DOMAIN way_geoms}

\* C2: a route is in the output of process_osm_file if and only if at least
\* one entry of its way list has a geometry; it then carries exactly the
\* geometries of the resolved entries, with a missing-ways warning if some
\* entry did not resolve; a route with no resolved entry is left out and
\* reported as skipped with its id.  The loop always returns.
C2_RouteIffSomeWayResolved ==
    /\ pc \in {"assign", "processed"}
    /\ pc = "processed" =>
        \A id \in DOMAIN routes.val :
            LET ways == routes.val[id].ways.v
                pos == ResolvedWayPositions(ways)
            IN  /\ id \in DOMAIN routes_with_geometry.val <=> pos # {}
                /\ pos # {} =>
                    LET g == routes_with_geometry.val[id].geometries.v
                    IN  /\ Len(g) = Cardinality(pos)
                        /\ \A k \in 1..Len(g) : g[k] = way_geoms[ways[KthPosition(pos, k)]]
                        /\ Cardinality(pos) < Len(ways) =>
                               Warn("route_missing_ways", id, Len(ways) - Cardinality(pos))
                                   \in log
                /\ pos = {} => Warn("route_skipped", id, 0) \in log

\* C2 witness: the function returned with one route emitted although one of
\* its two ways has no geometry, and another route skipped for having none.
C2_Witness ==
    /\ pc = "processed"
    /\ \E id \in DOMAIN routes_with_geometry.val :
        /\ Len(routes.val[id].ways.v) = 2
        /\ Len(routes_with_geometry.val[id].geometries.v) = 1
    /\ \E id \in DOMAIN routes.val :
        /\ id \notin DOMAIN routes_with_geometry.val
        /\ Warn("route_skipped", id, 0) \in log

(***************************************************************************)
(* linemerge(unary_union(lines)): kml_exporter.py line 60 and              *)
(* shp_exporter.py line 40.                                                *)
(*                                                                         *)
(* A line is a sequence of coordinates.  The lines of the model run        *)
(* between coordinates in general position, so they meet only where they   *)
(* share a coordinate, and the union is decided by exact equality of       *)
(* coordinates.  A segment is the set of its two end coordinates.          *)
(***************************************************************************)
SegmentsOf(line) ==
    {s \in {{line[i], line[i + 1]} : i \in 1..(Len(line) - 1)} : Cardinality(s) = 2}

\* the segments of the union: every segment once, none of length zero
UnionSegments(lns) == UNION {SegmentsOf(lns[i]) : i \in 1..Len(lns)}

Degree(v, segs) == Cardinality({s \in segs : v \in s})

\* how many times the lines visit a coordinate
RECURSIVE Visits(_, _)
Visits(v, lns) ==
    IF lns = <<>> THEN 0
    ELSE Cardinality({i \in 1..Len(Head(lns)) : Head(lns)[i] = v})
            + Visits(v, Tail(lns))

\* the points where the union cuts the lines: the ends of a line and the
\* points that lines pass more than once
IsUnionNode(v, lns) ==
    \/ \E i \in 1..Len(lns) : v \in {lns[i][1], lns[i][Len(lns[i])]}
    \/ Visits(v, lns) >= 2

\* the segments reachable from C over the links
RECURSIVE Closure(_, _, _)
Closure(C, segs, links) ==
    LET D == C \cup {s \in segs : \E c \in C : {c, s} \in links}
    IN  IF D = C THEN C ELSE Closure(D, segs, links)

\* the classes of segments joined by the links
RECURSIVE Classes(_, _)
Classes(segs, links) ==
    IF segs = {} THEN {}
    ELSE LET s == CHOOSE x \in segs : TRUE
             C == Closure({s}, segs, links)
         IN  {C} \cup Classes(segs \ C, links)

PointsOf(segs) == UNION segs

\* the pairs of segments that meet in one of the joining points
LinksAt(segs, joining) ==
    {pr \in SUBSET segs :
        Cardinality(pr) = 2 /\ \E v \in joining : \A s \in pr : v \in s}

\* unary_union: the noded, dissolved lines; one line per stretch between two
\* nodes of the union
unary_union(lns) ==
    LET segs == UnionSegments(lns)
        inner == {v \in PointsOf(segs) : ~IsUnionNode(v, lns)}
    IN  [segments |-> segs,
         geom_type |-> IF Cardinality(Classes(segs, LinksAt(segs, inner))) <= 1
                       THEN "LineString" ELSE "MultiLineString"]

\* GEOS line merging: lines are sewn together at the points where exactly
\* two of them end; the result is the set of maximal lines
line_merge_SewsAtJunctions(segs) ==
    Classes(segs, LinksAt(segs, PointsOf(segs)))

line_merge(segs) ==
    LET sewn == {v \in PointsOf(segs) : Degree(v, segs) = 2}
    IN  Classes(segs, LinksAt(segs, sewn))

\* linemerge(unary_union(lines)): what the call can do.  A MultiLineString is
\* merged.  shapely.ops.linemerge takes a MultiLineString or a sequence of
\* lines: handed the lone (or empty) LineString of a union of one line it
\* raises ValueError, unless the installed release merges it as well; an
\* empty result is an empty LineString or an empty GeometryCollection.
Merged(frags) ==
    [raised |-> FALSE,
     geom_type |-> IF Cardinality(frags) = 1 THEN "LineString" ELSE "MultiLineString",
     geoms |-> frags]

MergeRaises == [raised |-> TRUE, geom_type |-> "ValueError", geoms |-> {}]

MergeOutcomes(lns) ==
    LET u == unary_union(lns)
    IN  IF u.geom_type = "MultiLineString"
        THEN {Merged(line_merge(u.segments))}
        ELSE IF u.segments = {}
             THEN {MergeRaises,
                   [raised |-> FALSE, geom_type |-> "LineString", geoms |-> {}],
                   [raised |-> FALSE, geom_type |-> "GeometryCollection", geoms |-> {}]}
             ELSE {MergeRaises, Merged(line_merge(u.segments))}

(***************************************************************************)
(* SpecMerge: the merge applied to the way geometries of one route         *)
(***************************************************************************)
Coords == {<<Coordinates[i].lon, Coordinates[i].lat>> : i \in 1..Len(Coordinates)}

\* way geometries of two and of three coordinates (WayCollector keeps no
\* shorter one); a node referenced twice in a row gives a repeated coordinate
TwoPointLines == [1..2 -> Coords]
ThreePointLines == [1..3 -> Coords]

\* one or two way geometries, or three of two coordinates each
MergeInputs ==
    [1..1 -> TwoPointLines \cup ThreePointLines]
        \cup [1..2 -> TwoPointLines \cup ThreePointLines]
        \cup [1..3 -> TwoPointLines]

InitMerge ==
    /\ pc = "merge"
    /\ lastRec = NoRecord
    /\ n_seen = 0
    /\ routes = EmptyDict
    /\ PassIdle
    /\ AsmIdle
    /\ log = {}
    /\ lines \in MergeInputs
    /\ merged = NoMerge
    /\ OutputIdle
    /\ MainIdle

Merge ==
    /\ pc = "merge"
    /\ merged' \in MergeOutcomes(lines)
    /\ pc' = "merged"
    /\ UNCHANGED <<lastRec, n_seen, routes, passVars, asmVars, log, lines>>
    /\ UNCHANGED <<kml_files, saved, records, skipped_routes, tried, ret, file, args>>

NextMerge == Merge

SpecMerge == InitMerge /\ [][NextMerge]_vars

(***************************************************************************)
(* Claims about the merge                                                  *)
(***************************************************************************)
EndsOf(line) == {line[1], line[Len(line)]}

\* the way geometries, as positions of the list, that share an endpoint
EndpointLinks(lns) ==
    {pr \in SUBSET (1..Len(lns)) :
        Cardinality(pr) = 2 /\ \E i \in pr : \E j \in pr \ {i} :
            EndsOf(lns[i]) \cap EndsOf(lns[j]) # {}}

\* the connected components of the way geometries under shared endpoints
WayComponents(lns) == Classes(1..Len(lns), EndpointLinks(lns))

MergeReturned == pc = "merged" /\ ~merged.raised

RECURSIVE NodeCollector_apply_file(_, _)
NodeCollector_apply_file(st, nodes) ==
    IF nodes = <<>> THEN st
    ELSE NodeCollector_apply_file(node(st, Head(nodes)), Tail(nodes))

RECURSIVE WayCollector_apply_file(_, _, _)
WayCollector_apply_file(st, store, ways) ==
    IF ways = <<>> THEN st
    ELSE WayCollector_apply_file(way(st, store, Head(ways)), store, Tail(ways))

RECURSIVE AssignAll(_, _, _, _)
AssignAll(st, rts, keys, geoms) ==
    IF keys = <<>> THEN st
    ELSE AssignAll(assign(st, Head(keys), rts.val[Head(keys)], geoms),
                   rts, Tail(keys), geoms)

\* the returned mapping, with the way geometries and the log of the call
process_osm_file(f) ==
    LET rts == PTHandler_apply_file(EmptyDict, f.relations)
        ns == NodeCollector_apply_file([store |-> NoKeys, log |-> {}], f.nodes)
        ws == WayCollector_apply_file([geoms |-> NoKeys, log |-> ns.log], ns.store, f.ways)
        st == AssignAll([rwg |-> EmptyDict, log |-> ws.log], rts, rts.keys, ws.geoms)
    IN  [routes |-> st.rwg, way_geoms |-> ws.geoms, log |-> st.log]

(***************************************************************************)
(* The inputs of the exporters: what process_osm_file returns for small    *)
(* extracts.  Way 1, 2 and 3 meet at node 2; way 4 references node 1 twice *)
(* (a line of no length); way 5 references nodes without a location.       *)
(***************************************************************************)
ExportNodes ==
    <<[id |-> 1, location |-> Coordinates[1]],
      [id |-> 2, location |-> Coordinates[2]],
      [id |-> 3, location |-> Coordinates[3]],
      [id |-> 4, location |-> Coordinates[4]],
      [id |-> 5, location |-> InvalidLocation]>>

ExportWays ==
    <<[id |-> 1, nodes |-> <<1, 2>>],
      [id |-> 2, nodes |-> <<2, 3>>],
      [id |-> 3, nodes |-> <<2, 4>>],
      [id |-> 4, nodes |-> <<1, 1>>],
      [id |-> 5, nodes |-> <<5, 5>>]>>

ExportWayLists == {<<1>>, <<1, 2>>, <<1, 2, 3>>, <<4>>, <<5>>, <<1, 5>>}

s_L_5 == <<"L", "_", "5">>

\* relations with every kind of descriptive tags over a chain of two ways,
\* and named relations over every way list
ExportRelations ==
    {[id |-> i, tags |-> tg, members |-> AsWayMembers(<<1, 2>>)] :
        i \in RelationIds, tg \in AttributeTags}
    \cup
    {[id |-> i, tags |-> BusTags @@ ("name" :> nm), members |-> AsWayMembers(ws)] :
        i \in RelationIds, nm \in {s_L5, s_L_5}, ws \in ExportWayLists}

ExportRelationLists ==
    {<<r>> : r \in ExportRelations}
    \cup {<<r[1], r[2]>> : r \in {p \in ExportRelations \X ExportRelations : p[1].id # p[2].id}}

\* an input file: what the validator looks at, and the records osmium yields
OsmFile(rels) ==
    [exists |-> TRUE, osm_extension |-> TRUE, well_formed |-> TRUE, root |-> "osm",
     relations |-> rels, nodes |-> ExportNodes, ways |-> ExportWays]

ExportFiles == {OsmFile(rels) : rels \in ExportRelationLists}

(***************************************************************************)
(* kml_exporter.py                                                         *)
(***************************************************************************)
MaxFileNameLen == 200

ForbiddenChars == {"<", ">", ":", "\"", "/", "\\", "|", "?", "*"}

\* the characters of the model outside ASCII, named by code point
NonAsciiChars == {"U+00ED", "U+00F1"}

\* re.sub(r'[^\x00-\x7F]+', '_', name): a run of non-ASCII characters
\* becomes one underscore
RECURSIVE SubNonAscii(_)
SubNonAscii(name) ==
    IF name = <<>> THEN <<>>
    ELSE IF Head(name) \in NonAsciiChars
         THEN IF Len(name) >= 2 /\ name[2] \in NonAsciiChars
              THEN SubNonAscii(Tail(name))
              ELSE <<"_">> \o SubNonAscii(Tail(name))
         ELSE <<Head(name)>> \o SubNonAscii(Tail(name))

sanitize_filename(name) ==
    LET n1 == [i \in 1..Len(name) |-> IF name[i] \in ForbiddenChars THEN "_" ELSE name[i]]
        n2 == [i \in 1..Len(n1) |-> IF n1[i] = " " THEN "_" ELSE n1[i]]
        n3 == SubNonAscii(n2)
    IN  IF Len(n3) > MaxFileNameLen THEN SubSeq(n3, 1, MaxFileNameLen) ELSE n3

s_kml == <<".", "k", "m", "l">>
s_NA == <<"N", "/", "A">>
s_parte == <<" ", "(", "p", "a", "r", "t", "e", " ">>

\* f"{route_id}_{safe_name}.kml"
KmlFileName_NoSeparator(route_id, name) == Str(route_id) \o sanitize_filename(name) \o s_kml

KmlFileName(route_id, name) == Str(route_id) \o <<"_">> \o sanitize_filename(name) \o s_kml

Truthy(x) == x # PyNone /\ x # PyStr(s_empty)

\* the text of a feature's description, by its lines; the time of the export
\* is datetime.now()
Description(route_id, route_data) ==
    [Tipo |-> Get(route_data, "type", PyStr(s_NA)),
     Referencia |-> IF Truthy(Get(route_data, "ref", PyNone))
                    THEN route_data["ref"] ELSE PyNone,
     ID_OSM |-> route_id,
     Exportado |-> "now"]

\* the lines of a MultiLineString, in the order it holds them
RECURSIVE GeomsOf(_)
GeomsOf(frags) ==
    IF frags = {} THEN <<>>
    ELSE LET g == CHOOSE x \in frags : TRUE
         IN  <<g>> \o GeomsOf(frags \ {g})

LogEntry(level, what, who) == [level |-> level, what |-> what, who |-> who]

\* the KML document of a route: its name and one line feature per line of
\* the merged geometry
KmlDocument_SingleFeature(route_id, route_data, m) ==
    [name |-> route_data["name"].v,
     features |-> <<[name |-> route_data["name"].v,
                     description |-> Description(route_id, route_data),
                     coords |-> UNION m.geoms]>>]

KmlDocument(route_id, route_data, m) ==
    LET name == route_data["name"].v
        description == Description(route_id, route_data)
        parts == GeomsOf(m.geoms)
    IN  [name |-> name,
         features |->
            IF m.geom_type = "MultiLineString"
            THEN [i \in 1..Len(parts) |->
                     [name |-> name \o s_parte \o Str(i) \o <<")">>,
                      description |-> description,
                      coords |-> parts[i]]]
            ELSE <<[name |-> name,
                    description |-> description,
                    coords |-> UNION m.geoms]>>]

\* One iteration of the loop of export_routes_to_kml, with what the merge
\* does (m) and whether kml.save can write the file (save_ok).
\* st is [kml_files, saved, log, raised]; raised tells that an exception
\* left the loop.
kml_route_NoTry(st, route_id, route_data, m, save_ok) ==
    LET filename == KmlFileName(route_id, route_data["name"].v)
    IN  IF m.raised \/ ~save_ok
        THEN [st EXCEPT !.raised = TRUE]
        ELSE IF m.geom_type \in {"MultiLineString", "LineString"}
             THEN [st EXCEPT
                      !.saved = (filename :> KmlDocument(route_id, route_data, m)) @@ st.saved,
                      !.kml_files = Append(st.kml_files, filename)]
             ELSE st

kml_route(st, route_id, route_data, m, save_ok) ==
    LET geometries == Get(route_data, "geometries", PyList(<<>>)).v
        failed == [st EXCEPT !.log = st.log \cup
                      {LogEntry("error", "kml_export_failed",
                                Get(route_data, "name", PyInt(route_id)))}]
    IN  IF geometries = <<>>
        THEN [st EXCEPT !.log = st.log \cup
                 {LogEntry("warning", "kml_no_geometries", PyInt(route_id))}]
        ELSE IF m.raised
        THEN failed
        ELSE IF m.geom_type \notin {"MultiLineString", "LineString"}
        THEN [st EXCEPT !.log = st.log \cup
                 {LogEntry("warning", "kml_unsupported_geometry",
                           [name |-> route_data["name"], id |-> route_id])}]
        ELSE
            LET filename == KmlFileName(route_id, route_data["name"].v)
            IN  IF ~save_ok
                THEN failed
                ELSE [st EXCEPT
                         !.saved = (filename :> KmlDocument(route_id, route_data, m))
                                       @@ st.saved,
                         !.kml_files = Append(st.kml_files, filename)]

(***************************************************************************)
(* shp_exporter.py                                                         *)
(***************************************************************************)
\* st is [raised, geometry]
create_continuous_geometry(ways, geoms, m) ==
    LET lns == Geometries(ways, geoms)
    IN  IF lns = <<>>
        THEN [raised |-> TRUE, geometry |-> NoMerge]
        ELSE IF m.raised \/ m.geoms = {}
             THEN [raised |-> TRUE, geometry |-> NoMerge]
             ELSE [raised |-> FALSE, geometry |-> m]

\* s.strip(chars)
RECURSIVE LStrip(_, _)
LStrip(s, chars) ==
    IF s # <<>> /\ Head(s) \in chars THEN LStrip(Tail(s), chars) ELSE s

RECURSIVE RStrip(_, _)
RStrip(s, chars) ==
    IF s # <<>> /\ s[Len(s)] \in chars THEN RStrip(SubSeq(s, 1, Len(s) - 1), chars) ELSE s

Strip(s, chars) == RStrip(LStrip(s, chars), chars)

\* f"{x}" of an int or a str
Format(x) == IF x.t = "int" THEN Str(x.v) ELSE x.v

s_sep == <<" ", "-", " ">>
s_desconocida == <<"d", "e", "s", "c", "o", "n", "o", "c", "i", "d", "a">>
s_shp_path == <<"r", "u", "t", "a", "s", "_", "t", "r", "a", "n", "s", "p", "o", "r", "t", "e",
                ".", "s", "h", "p">>

\* length_km, a float, is not computed by the model
create_route_record(route_data, geometry) ==
    LET from_stop == Get(route_data, "from", PyStr(s_empty))
        to_stop == Get(route_data, "to", PyStr(s_empty))
        label == Strip(Format(from_stop) \o s_sep \o Format(to_stop), {" ", "-"})
        route_long ==
            IF label = <<>> \/ label = <<"-">>
            THEN Get(route_data, "name",
                     PyStr(s_route_ \o Format(Get(route_data, "id", PyStr(s_empty)))))
            ELSE PyStr(label)
    IN  [route_id |-> Get(route_data, "id", PyStr(s_empty)),
         route_name |-> Get(route_data, "name", PyStr(s_empty)),
         ref |-> Get(route_data, "ref", PyStr(s_empty)),
         route_type |-> Get(route_data, "route", PyStr(s_empty)),
         from_stop |-> from_stop,
         to_stop |-> to_stop,
         operator |-> Get(route_data, "operator", PyStr(s_empty)),
         route_long |-> route_long,
         geometry |-> geometry]

\* One iteration of the loop of export_routes_to_shapefile.  st is
\* [records, skipped_routes, log, raised]; an element of records is the
\* record with the key of the route it was made from.
shp_route_NoTry(st, route_id, route, geoms, m) ==
    LET g == create_continuous_geometry(route["ways"].v, geoms, m)
    IN  IF g.raised
        THEN [st EXCEPT !.raised = TRUE]
        ELSE [st EXCEPT !.records =
                 Append(st.records,
                        [route |-> route_id,
                         record |-> create_route_record(route, g.geometry)])]

shp_route(st, route_id, route, geoms, m) ==
    LET g == create_continuous_geometry(route["ways"].v, geoms, m)
    IN  IF g.raised
        THEN LET route_name ==
                     Get(route, "name", Get(route, "id", PyStr(s_desconocida)))
             IN  [st EXCEPT
                     !.log = st.log \cup
                                {LogEntry("warning", "shp_route_failed", route_name)},
                     !.skipped_routes = Append(st.skipped_routes, route_name)]
        ELSE [st EXCEPT !.records =
                 Append(st.records,
                        [route |-> route_id,
                         record |-> create_route_record(route, g.geometry)])]

\* the end of export_routes_to_shapefile, after the loop: io_ok tells
\* whether GeoDataFrame.to_file can write the shapefile
shp_finish_ReturnsNothing(recs, io_ok) ==
    IF recs = <<>> \/ io_ok
    THEN [kind |-> "return", value |-> IF recs = <<>> THEN <<>> ELSE s_shp_path]
    ELSE [kind |-> "raise", value |-> "to_file"]

shp_finish(recs, io_ok) ==
    IF recs = <<>>
    THEN [kind |-> "raise", value |-> "No se generaron geometrias validas para ninguna ruta"]
    ELSE IF io_ok
         THEN [kind |-> "return", value |-> s_shp_path]
         ELSE [kind |-> "raise", value |-> "to_file"]

(***************************************************************************)
(* SpecExport: process_osm_file on an input, then one of the exporters on  *)
(* the routes it returned (and, for the Shapefile, the way geometries of   *)
(* the same input).                                                        *)
(***************************************************************************)
InitExport ==
    /\ pc = "process"
    /\ lastRec = NoRecord
    /\ n_seen = 0
    /\ routes = EmptyDict
    /\ PassIdle
    /\ AsmIdle
    /\ log = {}
    /\ MergeIdle
    /\ OutputIdle
    /\ file \in ExportFiles
    /\ args = NoArgs

Process ==
    /\ pc = "process"
    /\ LET out == process_osm_file(file)
       IN  /\ routes' = PTHandler_apply_file(EmptyDict, file.relations)
           /\ way_geoms' = out.way_geoms
           /\ routes_with_geometry' = out.routes
           /\ log' = out.log
           /\ ret' = [kind |-> "return", value |-> out.routes]
    /\ pc' = "processed"
    /\ UNCHANGED <<lastRec, n_seen, seen_nodes, seen_ways, node_store, idx>>
    /\ UNCHANGED <<lines, merged, kml_files, saved, records, skipped_routes, tried,
                   file, args>>

CallKml ==
    /\ pc = "processed"
    /\ pc' = "kml"
    /\ ret' = Running
    /\ UNCHANGED <<lastRec, n_seen, routes, passVars, asmVars, log>>
    /\ UNCHANGED <<lines, merged, kml_files, saved, records, skipped_routes, tried,
                   file, args>>

KmlRoute ==
    /\ pc = "kml"
    /\ idx < Len(routes_with_geometry.keys)
    /\ LET route_id == routes_with_geometry.keys[idx + 1]
           route_data == routes_with_geometry.val[route_id]
       IN  \E m \in MergeOutcomes(Get(route_data, "geometries", PyList(<<>>)).v) :
           \E save_ok \in BOOLEAN :
               /\ (m.raised \/ m.geom_type = "GeometryCollection") => save_ok
               /\ LET st == kml_route([kml_files |-> kml_files, saved |-> saved,
                                       log |-> log, raised |-> FALSE],
                                      route_id, route_data, m, save_ok)
                  IN  /\ kml_files' = st.kml_files
                      /\ saved' = st.saved
                      /\ log' = st.log
                      /\ pc' = IF st.raised THEN "kml_raised" ELSE pc
                      /\ ret' = IF st.raised
                                THEN [kind |-> "raise", value |-> "kml"] ELSE ret
               /\ tried' = (route_id :> [m |-> m, io_ok |-> save_ok]) @@ tried
    /\ idx' = idx + 1
    /\ UNCHANGED <<lastRec, n_seen, routes, passVars, routes_with_geometry>>
    /\ UNCHANGED <<lines, merged, records, skipped_routes, file, args>>

KmlReturn ==
    /\ pc = "kml"
    /\ idx = Len(routes_with_geometry.keys)
    /\ ret' = [kind |-> "return", value |-> kml_files]
    /\ pc' = "kml_done"
    /\ UNCHANGED <<lastRec, n_seen, routes, passVars, asmVars, log>>
    /\ UNCHANGED <<lines, merged, kml_files, saved, records, skipped_routes, tried,
                   file, args>>

CallShp ==
    /\ pc = "processed"
    /\ pc' = "shp"
    /\ ret' = Running
    /\ UNCHANGED <<lastRec, n_seen, routes, passVars, asmVars, log>>
    /\ UNCHANGED <<lines, merged, kml_files, saved, records, skipped_routes, tried,
                   file, args>>

ShpRoute ==
    /\ pc = "shp"
    /\ idx < Len(routes_with_geometry.keys)
    /\ LET route_id == routes_with_geometry.keys[idx + 1]
           route == routes_with_geometry.val[route_id]
       IN  \E m \in MergeOutcomes(Geometries(route["ways"].v, way_geoms)) :
               /\ LET st == shp_route([records |-> records,
                                       skipped_routes |-> skipped_routes,
                                       log |-> log, raised |-> FALSE],
                                      route_id, route, way_geoms, m)
                  IN  /\ records' = st.records
                      /\ skipped_routes' = st.skipped_routes
                      /\ log' = st.log
                      /\ pc' = IF st.raised THEN "shp_raised" ELSE pc
                      /\ ret' = IF st.raised
                                THEN [kind |-> "raise", value |-> "shp"] ELSE ret
               /\ tried' = (route_id :> [m |-> m, io_ok |-> TRUE]) @@ tried
    /\ idx' = idx + 1
    /\ UNCHANGED <<lastRec, n_seen, routes, passVars, routes_with_geometry>>
    /\ UNCHANGED <<lines, merged, kml_files, saved, file, args>>

ShpFinish ==
    /\ pc = "shp"
    /\ idx = Len(routes_with_geometry.keys)
    /\ \E io_ok \in BOOLEAN :
        /\ records = <<>> => io_ok
        /\ ret' = shp_finish(records, io_ok)
    /\ pc' = "shp_done"
    /\ UNCHANGED <<lastRec, n_seen, routes, passVars, asmVars, log>>
    /\ UNCHANGED <<lines, merged, kml_files, saved, records, skipped_routes, tried,
                   file, args>>

NextExport ==
    Process \/ CallKml \/ KmlRoute \/ KmlReturn \/ CallShp \/ ShpRoute \/ ShpFinish

SpecExport == InitExport /\ [][NextExport]_vars

(***************************************************************************)
(* Properties of the exporters                                             *)
(***************************************************************************)
\* the routes the loop has been through
Handled == {routes_with_geometry.keys[i] : i \in 1..idx}

NameOf(route_id) == routes_with_geometry.val[route_id]["name"]

\* the routes a KML file was written for
KmlExported ==
    {id \in Handled :
        /\ \E i \in 1..Len(kml_files) : kml_files[i] = KmlFileName(id, NameOf(id).v)
        /\ KmlFileName(id, NameOf(id).v) \in DOMAIN saved}

\* the routes a Shapefile record was made for
ShpExported == {records[i].route : i \in 1..Len(records)}

\* a route's own processing for KML succeeds when the merge gives a line or
\* lines and the file can be written
KmlSucceeds(t) ==
    /\ ~t.m.raised
    /\ t.m.geom_type \in {"LineString", "MultiLineString"}
    /\ t.io_ok

\* a route's own processing for the Shapefile succeeds when the merge gives
\* a geometry that is not empty
ShpSucceeds(t) == ~t.m.raised /\ t.m.geoms # {}

KmlFailureLogged(id) ==
    \E e \in log :
        /\ e.what \in {"kml_export_failed", "kml_unsupported_geometry"}
        /\ e.who = NameOf(id) \/ e.who = [name |-> NameOf(id), id |-> id]

ShpFailureLogged(id) ==
    /\ \E e \in log : e.what = "shp_route_failed" /\ e.who = NameOf(id)
    /\ \E i \in 1..Len(skipped_routes) : skipped_routes[i] = NameOf(id)

\* C4: in both exporters' loops a failure of one route is caught and logged
\* with the route's name or id and excludes that route alone: no exception
\* leaves the loop, the loop ends only after the last route, and the routes
\* exported are exactly the routes whose own processing succeeded.
C4_LoopsIsolateFailures ==
    /\ pc \notin {"kml_raised", "shp_raised"}
    /\ pc \in {"kml", "kml_done"} =>
        /\ DOMAIN tried = Handled
        /\ KmlExported = {id \in Handled : KmlSucceeds(tried[id])}
        /\ \A id \in Handled \ KmlExported : KmlFailureLogged(id)
        /\ pc = "kml_done" =>
            /\ idx = Len(routes_with_geometry.keys)
            /\ ret = [kind |-> "return", value |-> kml_files]
            /\ Len(kml_files) = Cardinality(KmlExported)
    /\ pc \in {"shp", "shp_done"} =>
        /\ DOMAIN tried = Handled
        /\ ShpExported = {id \in Handled : ShpSucceeds(tried[id])}
        /\ \A id \in Handled \ ShpExported : ShpFailureLogged(id)
        /\ Len(records) = Cardinality(ShpExported)
        /\ pc = "shp_done" => idx = Len(routes_with_geometry.keys)

\* the first of two routes failed in the merge and the second was exported
C4_Witness ==
    /\ pc = "kml_done"
    /\ Len(routes_with_geometry.keys) = 2
    /\ tried[routes_with_geometry.keys[1]].m.raised
    /\ KmlExported = {routes_with_geometry.keys[2]}
    /\ KmlFailureLogged(routes_with_geometry.keys[1])

\* no way of any collected route has a geometry
NoUsableGeometry ==
    \A id \in DOMAIN routes.val :
        \A i \in 1..Len(routes.val[id]["ways"].v) :
            routes.val[id]["ways"].v[i] \notin DOMAIN way_geoms

\* C5 as stated: with no usable geometry each of the three functions gives
\* back an empty result and none raises, the Shapefile exporter included
\* when every route was skipped.
C5_EmptyResultNeverRaised ==
    /\ pc = "processed" =>
        /\ ret.kind = "return"
        /\ NoUsableGeometry => ret.value = EmptyDict
    /\ pc = "kml_done" =>
        /\ ret.kind = "return"
        /\ KmlExported = {} => ret.value = <<>>
    /\ pc = "shp_done" /\ records = <<>> => ret.kind = "return"

\* C5: with no usable geometry process_osm_file returns an empty mapping and
\* export_routes_to_kml an empty list, neither raising;
\* export_routes_to_shapefile raises an Exception when no route gave a
\* record, and returns the path of the file when some did and it was written.
C5_EmptyResultOrShpRaises ==
    /\ pc = "processed" =>
        /\ ret.kind = "return"
        /\ NoUsableGeometry => ret.value = EmptyDict
    /\ pc = "kml_done" =>
        /\ ret.kind = "return"
        /\ KmlExported = {} => ret.value = <<>>
    /\ pc = "shp_done" =>
        /\ records = <<>> => ret.kind = "raise"
        /\ ret.kind = "return" => records # <<>> /\ ret.value = s_shp_path

\* every route of a set that is not empty was skipped by the Shapefile
\* exporter
C5_Witness ==
    /\ pc = "shp_done"
    /\ routes_with_geometry.keys # <<>>
    /\ Len(skipped_routes) = Len(routes_with_geometry.keys)
    /\ records = <<>>
    /\ ret.kind = "raise"

\* C7: the Shapefile exporter makes exactly one record per route of the set
\* process_osm_file returned, with route_id the relation's id, route_name
\* its name, ref its reference and route_type its transport type, one of
\* the six.
C7_RecordCarriesRouteIdentity ==
    /\ \A i \in 1..Len(records) :
        LET route_id == records[i].route
            r == records[i].record
            route == routes_with_geometry.val[route_id]
        IN  /\ r.route_id = PyInt(route_id)
            /\ r.route_name = route["name"]
            /\ r.ref = route["ref"]
            /\ r.route_type = route["type"]
            /\ r.route_type.v \in SixTransportTypes
    /\ pc = "shp_done" /\ ret.kind = "return" =>
        ShpExported = {routes_with_geometry.keys[i] :
                          i \in 1..Len(routes_with_geometry.keys)}

\* the relation of the input a route was collected from
RelationOf(route_id) ==
    CHOOSE r \in {file.relations[i] : i \in 1..Len(file.relations)} : r.id = route_id

\* C9: a record's route_long is the label made of the relation's from and
\* to tags when it has either, with from_stop and to_stop their values, and
\* the route's name only when it has neither.
C9_RouteLongFromTags ==
    \A i \in 1..Len(records) :
        LET r == records[i].record
            tags == RelationOf(records[i].route).tags
            from_tag == TagsGet(tags, "from", PyStr(s_empty))
            to_tag == TagsGet(tags, "to", PyStr(s_empty))
        IN  IF "from" \in DOMAIN tags \/ "to" \in DOMAIN tags
            THEN /\ r.route_long =
                        PyStr(Strip(from_tag.v \o s_sep \o to_tag.v, {" ", "-"}))
                 /\ r.from_stop = from_tag
                 /\ r.to_stop = to_tag
            ELSE r.route_long = r.route_name

(***************************************************************************)
(* validator.py and main.py                                                *)
(***************************************************************************)
validate_osm_file(f) ==
    IF ~f.exists THEN [is_valid |-> FALSE, message |-> "no_existe"]
    ELSE IF ~f.osm_extension THEN [is_valid |-> FALSE, message |-> "extension"]
    ELSE IF ~f.well_formed THEN [is_valid |-> FALSE, message |-> "ParseError"]
    ELSE IF f.root # "osm" THEN [is_valid |-> FALSE, message |-> "raiz"]
    ELSE IF \E i \in 1..Len(f.relations) :
                /\ TagsGet(f.relations[i].tags, "type", PyNone) = PyStr(s_route)
                /\ InList(TagsGet(f.relations[i].tags, "route", PyNone), TRANSPORT_TYPES)
         THEN [is_valid |-> TRUE, message |-> "OK"]
         ELSE [is_valid |-> FALSE, message |-> "sin_relaciones"]

determine_export_formats(a) ==
    LET chosen ==
            IF a.kml \/ a.shp
            THEN [export_kml |-> a.kml, export_shp |-> a.shp]
            ELSE IF a.format = "kml"
                 THEN [export_kml |-> TRUE, export_shp |-> FALSE]
                 ELSE IF a.format \in {"shp", "shapefile"}
                      THEN [export_kml |-> FALSE, export_shp |-> TRUE]
                      ELSE IF a.format = "both"
                           THEN [export_kml |-> TRUE, export_shp |-> TRUE]
                           ELSE [export_kml |-> FALSE, export_shp |-> FALSE]
    IN  IF ~chosen.export_kml /\ ~chosen.export_shp
        THEN [export_kml |-> TRUE, export_shp |-> FALSE]
        ELSE chosen

\* the names the module osm_processor binds at its top level
osm_processor_names == {"osmium", "logging", "Dict", "List", "Tuple", "LineString",
                        "logger", "PTHandler", "process_osm_file"}

\* from <module> import <name>
ImportFrom(names, name) == IF name \in names THEN "bound" ELSE "ImportError"

\* the command lines argparse accepts
MainArgs ==
    [format : {"kml", "shp", "shapefile", "both"}, kml : BOOLEAN, shp : BOOLEAN]

FerryRelation ==
    [id |-> 12, tags |-> ("type" :> s_route) @@ ("route" :> s_ferry) @@ ("name" :> s_L5),
     members |-> AsWayMembers(<<1, 2>>)]

MainRelationLists ==
    {<<>>, <<FerryRelation>>, <<BusRelation(7, <<5>>)>>, <<BusRelation(7, <<1, 2>>)>>,
     <<BusRelation(7, <<1, 5>>), FerryRelation>>}

MainFiles ==
    {[OsmFile(rels) EXCEPT !.exists = e, !.osm_extension = x, !.well_formed = wf,
                           !.root = rt] :
        rels \in MainRelationLists, e \in BOOLEAN, x \in BOOLEAN, wf \in BOOLEAN,
        rt \in {"osm", "gpx"}}

(***************************************************************************)
(* SpecMain: a run of main, from the parsed command line to the statement  *)
(* that ends it or to the export stage (which is SpecExport's subject).    *)
(***************************************************************************)
InitMain ==
    /\ pc = "validate"
    /\ lastRec = NoRecord
    /\ n_seen = 0
    /\ routes = EmptyDict
    /\ PassIdle
    /\ AsmIdle
    /\ log = {}
    /\ MergeIdle
    /\ OutputIdle
    /\ file \in MainFiles
    /\ args \in MainArgs

mainFrame ==
    <<lastRec, n_seen, seen_nodes, seen_ways, node_store, idx, lines, merged, kml_files,
      saved, records, skipped_routes, tried, file, args>>

\* Paso 1
Validate ==
    /\ pc = "validate"
    /\ IF validate_osm_file(file).is_valid
       THEN pc' = "process" /\ ret' = ret
       ELSE pc' = "exit" /\ ret' = [kind |-> "exit", value |-> 1]
    /\ UNCHANGED <<routes, way_geoms, routes_with_geometry, log>>
    /\ UNCHANGED mainFrame

\* Paso 2: osmium reads the file, or fails on content the validator does
\* not look at
MainProcess ==
    /\ pc = "process"
    /\ \E readable \in BOOLEAN :
        IF readable
        THEN LET out == process_osm_file(file)
             IN  /\ routes' = PTHandler_apply_file(EmptyDict, file.relations)
                 /\ routes_with_geometry' = out.routes
                 /\ log' = out.log
                 /\ pc' = "routes"
                 /\ ret' = ret
        ELSE /\ pc' = "exit"
             /\ ret' = [kind |-> "exit", value |-> 1]
             /\ UNCHANGED <<routes, routes_with_geometry, log>>
    /\ UNCHANGED way_geoms
    /\ UNCHANGED mainFrame

\* if not routes: sys.exit(0)
ExitNoRoutes ==
    /\ pc = "routes"
    /\ routes_with_geometry.keys = <<>>
    /\ pc' = "exit"
    /\ ret' = [kind |-> "exit", value |-> 0]
    /\ UNCHANGED <<routes, way_geoms, routes_with_geometry, log>>
    /\ UNCHANGED mainFrame

\* from osm_processor import get_way_geometries, outside any try
ImportWayGeometries ==
    /\ pc = "routes"
    /\ routes_with_geometry.keys # <<>>
    /\ IF ImportFrom(osm_processor_names, "get_way_geometries") = "bound"
       THEN pc' = "export" /\ ret' = ret
       ELSE pc' = "raised" /\ ret' = [kind |-> "raise", value |-> "ImportError"]
    /\ UNCHANGED <<routes, way_geoms, routes_with_geometry, log>>
    /\ UNCHANGED mainFrame

NextMain == Validate \/ MainProcess \/ ExitNoRoutes \/ ImportWayGeometries

SpecMain == InitMain /\ [][NextMain]_vars

\* C6: a run of main whose input is valid and whose routes are not empty
\* goes on from processing to the export stage, with an exporter selected,
\* and does not end in between.
C6_ExportStageReached ==
    (/\ validate_osm_file(file).is_valid
     /\ routes_with_geometry.keys # <<>>
     /\ pc \notin {"validate", "process", "routes"})
    => /\ pc = "export"
       /\ ret = Running
       /\ determine_export_formats(args).export_kml
            \/ determine_export_formats(args).export_shp

(***************************************************************************)
(* Further claims about the passes of process_osm_file                     *)
(***************************************************************************)
\* C11: every way handed to the way pass that is not kept in way_geoms has
\* a warning in the log that names the way and gives the number of its node
\* references that did not resolve, also when the way has no or one
\* reference and none is missing.
C11_DroppedWayWarned ==
    pc \in {"ways", "assign"} =>
        \A id \in DOMAIN seen_ways :
            id \notin DOMAIN way_geoms =>
                Warn("way_missing_nodes", id,
                     Len(seen_ways[id]) - Cardinality(ResolvedPositions(seen_ways[id])))
                    \in log

\* the positions of the members of kind way in a member list
WayPositions(members) == {i \in 1..Len(members) : members[i].type = "w"}

\* C13: the way list of an accepted relation holds the references of the
\* relation's members of kind way, each member once, in member order (a
\* reference that occurs twice occurs twice), and nothing of a member of
\* kind node or relation.
C13_WayListIsWayMembersInOrder ==
    (n_seen > 0 /\ IsTransportRoute(lastRec)) =>
        LET ways == routes.val[lastRec.id].ways.v
            pos == WayPositions(lastRec.members)
        IN  /\ Len(ways) = Cardinality(pos)
            /\ \A k \in 1..Cardinality(pos) :
                   ways[k] = lastRec.members[KthPosition(pos, k)].ref

\* an accepted relation whose members are a node and then a way: the way
\* list is the way alone; and the handler has also stored a relation before
C13_Witness ==
    /\ n_seen = 2
    /\ IsTransportRoute(lastRec)
    /\ Len(lastRec.members) = 2
    /\ lastRec.members[1].type = "n"
    /\ lastRec.members[2].type = "w"
    /\ routes.val[lastRec.id].ways.v = <<lastRec.members[2].ref>>

\* C14: during and after the node pass the keys of node_store are exactly
\* the nodes seen that have a valid location, each with its coordinates; a
\* node with an invalid location is not a key, has a warning with its id in
\* the log, and the nodes that came after it were handled all the same.
C14_StoreHoldsValidNodesOnly ==
    pc \in {"nodes", "ways", "assign"} =>
        /\ DOMAIN node_store = {id \in DOMAIN seen_nodes : seen_nodes[id].valid}
        /\ \A id \in DOMAIN node_store :
               node_store[id] = <<seen_nodes[id].lon, seen_nodes[id].lat>>
        /\ \A id \in DOMAIN seen_nodes :
               ~seen_nodes[id].valid =>
                   /\ id \notin DOMAIN node_store
                   /\ \E e \in log : e.what = "invalid_location" /\ e.id = id

\* a node with an invalid location was followed by a node with a valid one,
\* which is in the store
C14_Witness ==
    /\ pc = "ways"
    /\ \E i \in DOMAIN seen_nodes, j \in DOMAIN seen_nodes :
        /\ i < j
        /\ ~seen_nodes[i].valid
        /\ seen_nodes[j].valid
        /\ j \in DOMAIN node_store
        /\ i \notin DOMAIN node_store

(***************************************************************************)
(* Further claims about the KML exporter                                   *)
(***************************************************************************)
\* the document written for an exported route
KmlDocumentOf(route_id) == saved[KmlFileName(route_id, NameOf(route_id).v)]

\* C12 as stated: the document of every exported route has as many line
\* features as the merged geometry has fragments, and the description of
\* each carries the route id, the transport type, the reference code and
\* the time of the export.
C12_FeaturePerFragmentFullDescription ==
    pc \in {"kml", "kml_done"} =>
        \A id \in KmlExported :
            LET doc == KmlDocumentOf(id)
                route == routes_with_geometry.val[id]
            IN  /\ Len(doc.features) = Cardinality(tried[id].m.geoms)
                /\ \A i \in 1..Len(doc.features) :
                    LET d == doc.features[i].description
                    IN  /\ d.ID_OSM = id
                        /\ d.Tipo = route["type"]
                        /\ d.Referencia = route["ref"]
                        /\ d.Exportado = "now"

\* C12: the document of every exported route has one line feature per line
\* of a MultiLineString result, each with the coordinates of its line, and
\* one feature for a LineString result; every description carries the route
\* id, the transport type and the time of the export, and the reference
\* code exactly when the route has one that is not empty.
C12_FeaturePerLineRefWhenPresent ==
    pc \in {"kml", "kml_done"} =>
        \A id \in KmlExported :
            LET doc == KmlDocumentOf(id)
                route == routes_with_geometry.val[id]
                m == tried[id].m
            IN  /\ m.geom_type = "MultiLineString" =>
                    /\ Len(doc.features) = Cardinality(m.geoms)
                    /\ {doc.features[i].coords : i \in 1..Len(doc.features)} = m.geoms
                /\ m.geom_type = "LineString" =>
                    /\ Len(doc.features) = 1
                    /\ doc.features[1].coords = UNION m.geoms
                    /\ doc.features[1].name = route["name"].v
                /\ doc.name = route["name"].v
                /\ \A i \in 1..Len(doc.features) :
                    LET d == doc.features[i].description
                    IN  /\ d.ID_OSM = id
                        /\ d.Tipo = route["type"]
                        /\ d.Exportado = "now"
                        /\ d.Referencia =
                              IF route["ref"] = PyStr(s_empty) THEN PyNone ELSE route["ref"]

\* two routes were exported: one with a reference and a single line, one
\* without a reference whose merged geometry has three lines
C12_Witness ==
    /\ pc = "kml_done"
    /\ \E a \in KmlExported, b \in KmlExported :
        /\ routes_with_geometry.val[a]["ref"] # PyStr(s_empty)
        /\ tried[a].m.geom_type = "LineString"
        /\ Len(KmlDocumentOf(a).features) = 1
        /\ KmlDocumentOf(a).features[1].description.Referencia
               = routes_with_geometry.val[a]["ref"]
        /\ routes_with_geometry.val[b]["ref"] = PyStr(s_empty)
        /\ Cardinality(tried[b].m.geoms) = 3
        /\ Len(KmlDocumentOf(b).features) = 3

(***************************************************************************)
(* SpecNaming: export_routes_to_kml on the routes of extracts whose two    *)
(* relations have ids of which one's digits begin the other's, and names   *)
(* that are equal, or sanitize to the same string, or begin with digits    *)
(* or an underscore.                                                       *)
(***************************************************************************)
NamingIds == <<1, 12>>

NamingNames ==
    {<<"x">>, <<"_", "x">>, <<"2", "_", "x">>, <<"2", " ", "x">>, s_L5, s_L_5,
     <<"L", ":", "5">>, <<"L", "U+00ED", "U+00F1", "5">>}

NamingFiles ==
    {OsmFile(<<[id |-> NamingIds[1], tags |-> BusTags @@ ("name" :> n1),
                members |-> AsWayMembers(<<1, 2>>)],
               [id |-> NamingIds[2], tags |-> BusTags @@ ("name" :> n2),
                members |-> AsWayMembers(<<2, 3>>)]>>) :
        n1 \in NamingNames, n2 \in NamingNames}

InitNaming ==
    /\ pc = "kml"
    /\ lastRec = NoRecord
    /\ n_seen = 0
    /\ file \in NamingFiles
    /\ routes = PTHandler_apply_file(EmptyDict, file.relations)
    /\ seen_nodes = NoKeys
    /\ seen_ways = NoKeys
    /\ node_store = NoKeys
    /\ way_geoms = process_osm_file(file).way_geoms
    /\ routes_with_geometry = process_osm_file(file).routes
    /\ idx = 0
    /\ log = process_osm_file(file).log
    /\ MergeIdle
    /\ OutputIdle
    /\ args = NoArgs

NextNaming == KmlRoute \/ KmlReturn

SpecNaming == InitNaming /\ [][NextNaming]_vars

\* the path the exporter is to give a route: the id, an underscore, the
\* sanitized name and ".kml"
PathOf(route_id) ==
    Str(route_id) \o <<"_">> \o sanitize_filename(NameOf(route_id).v) \o s_kml

AllRoutes == {routes_with_geometry.keys[i] : i \in 1..Len(routes_with_geometry.keys)}

Written == {id \in Handled : KmlSucceeds(tried[id])}

\* C15: in a call of export_routes_to_kml two different route ids never
\* have the same path; every route written has its own file, which holds
\* its own document, and the list of files has each path once, one per
\* route written.
C15_DistinctPathPerRoute ==
    pc \in {"kml", "kml_done"} =>
        /\ \A a \in AllRoutes, b \in AllRoutes : a # b => PathOf(a) # PathOf(b)
        /\ DOMAIN saved = {PathOf(id) : id \in Written}
        /\ Cardinality(DOMAIN saved) = Cardinality(Written)
        /\ \A id \in Written :
               \A i \in 1..Len(saved[PathOf(id)].features) :
                   saved[PathOf(id)].features[i].description.ID_OSM = id
        /\ Len(kml_files) = Cardinality(Written)
        /\ {kml_files[i] : i \in 1..Len(kml_files)} = DOMAIN saved

\* two routes whose names sanitize to the same string were both written
C15_Witness ==
    /\ pc = "kml_done"
    /\ Cardinality(Written) = 2
    /\ NameOf(NamingIds[1]) # NameOf(NamingIds[2])
    /\ sanitize_filename(NameOf(NamingIds[1]).v) = sanitize_filename(NameOf(NamingIds[2]).v)
    /\ Len(kml_files) = 2
    /\ kml_files[1] # kml_files[2]

====
